---- MODULE Spec2Model ----
(***************************************************************************)
(* A model of lib/watcher.js: the Watcher object that periodically gathers *)
(* the state of every zone (network usage, zone list and configuration,    *)
(* disk usage), joins it into one snapshot per zone and emits each         *)
(* snapshot as a 'vm-update' event.                                        *)
(*                                                                         *)
(* Every asynchronous accessor (common.bootTime, common.vmListFromFile,    *)
(* common.vmGet, zfs.get) is a call whose callback arrives later: the call *)
(* is the end of one action and the callback is an action of its own, so   *)
(* callbacks of different cycles interleave as they do on the event loop.  *)
(* Everything a callback does synchronously is part of its action.  An     *)
(* exception thrown out of a callback is uncaught: the process ends.       *)
(***************************************************************************)
EXTENDS Integers, Sequences, FiniteSets, TLC

\* ------------------------------------------------------------- bounds
\* Number of timer firings (cycles) explored.
MaxCycles == 2
\* Number of cycles that can be in progress at the same time.
MaxOverlap == 2

\* ------------------------------------------------------ the host's world
\* The names (uuids) of the non-global zones the accessors can return.
Zones == {"a", "b"}
\* The order in which the zone listing and Object.keys enumerate zones.
ZoneOrder == <<"a", "b">>
\* z.uuid of the listing: the zone's secondary identifier.
OsUuidOf(z) == "os-" \o z
\* z.dataset of the listing and config.zonepath of the zone's record.
ZonePathOf(z) == IF z = "a" THEN "/p/a" ELSE "/p/ab"
\* attributes.alias as stored (base64); "" is a record without an alias.
AliasOf(z) == IF z = "a" THEN "YQ==" ELSE ""
\* The numeric zone id the kernel gives each zone.
ZoneIdOf(z) == IF z = "a" THEN 1 ELSE 2
\* The datasets zfs.get can return.
Datasets == {"p/a", "p/ab", "p/cores/b", "q"}
DatasetOrder == <<"p/a", "p/ab", "p/cores/b", "q">>
\* The link statistics kstat can return (name of the link kstat).
LinkNames == {"z1_net0", "z2_net0", "net0"}
\* The sets of link statistics one kstat read can return.
StatReads == {LinkNames}
\* The results one bulk zfs.get can return: the datasets and their 'used'.
ZfsReads ==
    {[names |-> {"p/a", "q"}, used |-> "10"],
     [names |-> Datasets, used |-> "20"]}
\* The boot times common.bootTime can return (seconds).
BootTimes == {100}
\* The lifecycle states zutil.getZoneState can return.
Statuses == {"running"}
\* Which guard against a callback called twice the async library has:
\* "each" (0.2.x, the first versions with async.each: async.each throws,
\* async.waterfall runs the next task again), "all" (2.x: both throw).
AsyncGuards == {"each", "all"}

Cycles == 1 .. MaxCycles

\* ------------------------------------------------------ string helpers
\* String.prototype.indexOf for a one-character needle: 0-based, -1 if absent.
IndexOf(s, ch) ==
    IF \E i \in 1 .. Len(s) : SubSeq(s, i, i) = ch
    THEN (CHOOSE i \in 1 .. Len(s) :
             /\ SubSeq(s, i, i) = ch
             /\ \A j \in 1 .. (i - 1) : SubSeq(s, j, j) # ch) - 1
    ELSE -1

\* String.prototype.slice(from, to) with JavaScript's handling of negative
\* and out-of-range indices.
Slice(s, from, to) ==
    LET n  == Len(s)
        f0 == IF from < 0 THEN (IF n + from < 0 THEN 0 ELSE n + from)
              ELSE (IF from > n THEN n ELSE from)
        t0 == IF to < 0 THEN (IF n + to < 0 THEN 0 ELSE n + to)
              ELSE (IF to > n THEN n ELSE to)
    IN  IF f0 >= t0 THEN "" ELSE SubSeq(s, f0 + 1, t0)

\* startsWith that asks for the whole name: a === str.
startsWithAll(a, str) == a = str

\* startsWith(a, str): a.slice(0, str.length) === str.
startsWith(a, str) == Slice(a, 0, Len(str)) = str

\* ------------------------------------------------------ number helpers
DigitChars == "0123456789"
IsDigit(ch) == \E i \in 1 .. 10 : SubSeq(DigitChars, i, i) = ch
DigitVal(ch) == (CHOOSE i \in 1 .. 10 : SubSeq(DigitChars, i, i) = ch) - 1

\* The length of the run of decimal digits of s that starts at (1-based) i.
RECURSIVE DigitRun(_, _)
DigitRun(s, i) ==
    IF i <= Len(s) /\ IsDigit(SubSeq(s, i, i)) THEN 1 + DigitRun(s, i + 1) ELSE 0

\* The value of a string of decimal digits ("" is 0).
RECURSIVE DigitsVal(_)
DigitsVal(s) ==
    IF s = "" THEN 0
    ELSE DigitsVal(SubSeq(s, 1, Len(s) - 1)) * 10 + DigitVal(SubSeq(s, Len(s), Len(s)))

\* A JavaScript value held by a dataset property: a string, a number or NaN.
StrV(s) == [kind |-> "str", s |-> s, n |-> 0]
NumV(n) == [kind |-> "num", s |-> "", n |-> n]
NaNV == [kind |-> "nan", s |-> "", n |-> 0]

\* parseInt(v, 10): a number stays itself; of a string, the optional sign and
\* the leading digits are read, and no digits give NaN.
parseInt(v) ==
    IF v.kind # "str" THEN v
    ELSE LET neg  == Len(v.s) > 0 /\ SubSeq(v.s, 1, 1) = "-"
             pos  == Len(v.s) > 0 /\ SubSeq(v.s, 1, 1) = "+"
             from == IF neg \/ pos THEN 2 ELSE 1
             k    == DigitRun(v.s, from)
             mag  == DigitsVal(SubSeq(v.s, from, from + k - 1))
         IN  IF k = 0 THEN NaNV ELSE NumV(IF neg THEN 0 - mag ELSE mag)

\* ------------------------------------------------ the network collector
\* zoneRE = /z(\d+)_(.*)/ applied to a link name: the leftmost "z" that is
\* followed by one or more digits and then "_"; m[1] is the digits, m[2] the
\* rest of the name.  matched is FALSE when the name does not match.
zoneRE(name) ==
    LET Hit(i) == /\ SubSeq(name, i, i) = "z"
                  /\ DigitRun(name, i + 1) > 0
                  /\ SubSeq(name, i + 1 + DigitRun(name, i + 1),
                                  i + 1 + DigitRun(name, i + 1)) = "_"
        hits == {i \in 1 .. Len(name) : Hit(i)}
    IN  IF hits = {} THEN [matched |-> FALSE, zoneid |-> "", linkname |-> ""]
        ELSE LET i == CHOOSE h \in hits : \A g \in hits : h <= g
                 k == DigitRun(name, i + 1)
             IN  [matched |-> TRUE,
                  zoneid |-> SubSeq(name, i + 1, i + k),
                  linkname |-> SubSeq(name, i + k + 2, Len(name))]

\* The kstat record of a link: its byte counters and creation time (ns
\* since boot).
LinkStat(name) ==
    [name |-> name,
     crtime |-> IF Len(name) > 4 THEN 2000000000 ELSE 1000000000,
     obytes64 |-> 100 * Len(name),
     rbytes64 |-> 10 * Len(name)]

\* zutil.getZoneById(id).name for the zones of this host.
ZoneNameById(id) == CHOOSE z \in Zones : ZoneIdOf(z) = id

\* counter_start: new Date(bootTimestamp * 1000 + crtime / 1000000000.0), in
\* milliseconds (the Date keeps the integral part).
CounterStart(bootTimestamp, crtime) == bootTimestamp * 1000 + (crtime \div 1000000000)

\* The sample recorded for one link.
Sample(bootTimestamp, link) ==
    [sent_bytes |-> link.obytes64,
     received_bytes |-> link.rbytes64,
     counter_start |-> CounterStart(bootTimestamp, link.crtime)]

\* The links of `stats` whose name matches zoneRE.
ZoneLinks(stats) == {n \in stats : zoneRE(n).matched}

\* The zone a matching link belongs to.
LinkZone(n) == ZoneNameById(DigitsVal(zoneRE(n).zoneid))

\* The usage object the while loop of updateNetworkUsage builds from the
\* statistics read: usage[zonename][linkname] = the link's sample.
Usage(bootTimestamp, stats) ==
    LET zs == {LinkZone(n) : n \in ZoneLinks(stats)}
    IN  [z \in zs |->
            LET ls == {n \in ZoneLinks(stats) : LinkZone(n) = z}
            IN  [l \in {zoneRE(n).linkname : n \in ls} |->
                    Sample(bootTimestamp,
                           LinkStat(CHOOSE n \in ls : zoneRE(n).linkname = l))]]

\* --------------------------------------------------- the zone registry
\* A JavaScript object as a map: a function whose domain is its keys.
EmptyMap == <<>>
Keys(m) == DOMAIN m
\* m with m[k] = v set.
Put(m, k, v) == [x \in (DOMAIN m) \cup {k} |-> IF x = k THEN v ELSE m[x]]
\* The keys of a map with zone names as keys, in enumeration order.
KeySeq(m, order) == SelectSeq(order, LAMBDA k : k \in DOMAIN m)

\* vm.config before common.vmGet has answered: undefined.
NoConfig ==
    [defined |-> FALSE, name |-> "", zonepath |-> "", attributes |-> [alias |-> ""]]

\* The record common.vmGet returns for a zone.
VmRec(z) ==
    [defined |-> TRUE, name |-> z, zonepath |-> ZonePathOf(z),
     attributes |-> [alias |-> AliasOf(z)]]

\* new Buffer(alias, 'base64').toString('utf8'), for the aliases of this host.
Base64Decode(s) == IF s = "YQ==" THEN "a" ELSE IF s = "Yg==" THEN "b" ELSE ""

\* The object onVm creates for a listed zone: self.vms[z.name] = {} with uuid,
\* os_uuid and timestamp set; status ("" is undefined) and config come later.
NewVm(z, now) ==
    [uuid |-> z, os_uuid |-> OsUuidOf(z), timestamp |-> now,
     status |-> "", config |-> NoConfig]

\* z.dataset.replace(/^\//, ''): the dataset path without its leading "/".
StripLeadingSlash(path) ==
    IF Len(path) > 0 /\ SubSeq(path, 1, 1) = "/" THEN Slice(path, 1, Len(path)) ELSE path

\* -------------------------------------------------- the disk collector
\* The properties zfs.get returns for one dataset (parseable output: text);
\* '-' is zfs's value for a property that does not apply to the dataset.
RawProps(d, used) ==
    [name |-> StrV(d),
     used |-> IF d = "p/cores/b" THEN StrV("-") ELSE StrV(used),
     available |-> IF d = "p/ab" THEN StrV("-") ELSE StrV("5"),
     referenced |-> IF d = "p/ab" THEN StrV("-") ELSE StrV(used),
     type |-> StrV("filesystem"),
     mountpoint |-> StrV("/" \o d),
     quota |-> IF d = "p/a" THEN StrV("1000") ELSE StrV("-"),
     origin |-> StrV("-"),
     volsize |-> StrV("-")]

numKeys == {"used", "available", "referenced", "quota", "volsize"}

\* Coerce without the test for '-': every property of numKeys is parsed.
CoerceAll(props) ==
    [k \in DOMAIN props |-> IF k \in numKeys THEN parseInt(props[k]) ELSE props[k]]

\* The for-in loop of add(d): every property that is not '-' and is one of
\* numKeys is replaced by parseInt of it, in place.
Coerce(props) ==
    [k \in DOMAIN props |->
        IF props[k] # StrV("-") /\ k \in numKeys THEN parseInt(props[k]) ELSE props[k]]

\* The two prefixes updateDisk computes for a vm.
ZonepathKey(vm) == Slice(vm.config.zonepath, 1, Len(vm.config.zonepath))
PoolOf(vm) == Slice(ZonepathKey(vm), 0, IndexOf(ZonepathKey(vm), "/"))
CoresKey(vm) == PoolOf(vm) \o "/cores/" \o vm.uuid

\* ---------------------------------------------------------------- state
VARIABLES
    started,            \* start() has been called
    timers,             \* the number of pending setTimeout timers
    fired,              \* the number of timer firings so far
    uncaught,           \* the exception thrown out of a callback, and by which cycle
    asyncGuard,         \* the async library's guard against repeated callbacks
    cyc,                \* per cycle: where its pipeline and its callbacks are
    hist,               \* per cycle: what its accessors answered and what it did
    vms,                \* self.vms: zone name -> the cycle whose object it holds
    vmobj,              \* the vm objects onVm created, by cycle and zone name
    network,            \* self.network and the cycle that built the object
    disk,               \* self.disk: zone name -> dataset name -> its object
    dsobj,              \* the dataset objects zfs.get returned, by cycle
    vmDatasetsToPath,   \* self.vmDatasetsToPath
    vmPathsToZone,      \* self.vmPathsToZone
    vmsToDataset,       \* self.vmsToDataset
    emitted,            \* the 'vm-update' events emitted so far, in order
    clock               \* the scheduler's arithmetic: interval, Date.now(), fire time

vars ==
    <<started, timers, fired, uncaught, asyncGuard, cyc, hist, vms, vmobj,
      network, disk, dsobj, vmDatasetsToPath, vmPathsToZone, vmsToDataset, emitted,
      clock>>

shared ==
    <<vms, vmobj, network, disk, dsobj, vmDatasetsToPath, vmPathsToZone,
      vmsToDataset, emitted>>

\* DecodeAlias over a record that common.vmGet keeps and returns again: the
\* alias of a zone seen before was decoded in place and is decoded once more.
DecodeAliasAgain(vmrec) ==
    LET once == [vmrec EXCEPT !.attributes.alias = Base64Decode(vmrec.attributes.alias)]
    IN  IF vmrec.attributes.alias = "" THEN vmrec
        ELSE IF vmrec.name \in DOMAIN vmsToDataset /\ once.attributes.alias # ""
        THEN [once EXCEPT !.attributes.alias = Base64Decode(once.attributes.alias)]
        ELSE once

\* The vmGet callback's decoding of attributes.alias, when there is one.
DecodeAlias(vmrec) ==
    IF vmrec.attributes.alias # ""
    THEN [vmrec EXCEPT !.attributes.alias = Base64Decode(vmrec.attributes.alias)]
    ELSE vmrec

\* A cycle that has not started.
IdleCycle ==
    [pc |-> "idle",         \* the accessor callback the waterfall waits for
     arrLen |-> 0,          \* arr.length of async.each over the listing
     completed |-> 0,       \* async.each's count of completed items
     called |-> {},         \* the items whose cb has been called
     pending |-> {},        \* the zones whose common.vmGet has not answered
     stageCalls |-> 0,      \* calls of updateVirtualMachines' callback
     vms |-> EmptyMap]      \* transform's result: uuid -> snapshot

NoHistory ==
    [alone |-> TRUE,        \* no other cycle was in progress when it started
     bootErr |-> FALSE, listErr |-> FALSE, zfsErr |-> FALSE,
     byIdErr |-> FALSE,     \* zutil.getZoneById threw
     stateErr |-> {},       \* zones whose state lookup threw another error
     listed |-> {},         \* the non-global zones the listing returned
     gone |-> {},           \* zones whose state lookup said 'no such zone'
     cfgCalled |-> {},      \* zones common.vmGet was called for
     cfgDone |-> {},        \* zones whose vmGet callback has run
     cfgErr |-> {},         \* zones whose vmGet failed
     datasets |-> {},       \* the dataset names zfs.get returned
     stats |-> {},          \* the link names kstat returned
     errors |-> 0,          \* times the cycle's error handler logged an error
     stages |-> <<>>]       \* the stages completed, in order

\* No exception has been thrown.
NoException == [cycle |-> 0, error |-> ""]
Crashed == uncaught.cycle # 0

\* The exceptions a callback can throw.
AlreadyCalled == "Error: Callback was already called."
ConfigUndefined == "TypeError: Cannot read property of undefined (vm.config)"
ListUndefined == "TypeError: Cannot read property 'length' of undefined"
ZoneStateError == "Error: getZoneState failed"
ZoneByIdError == "Error: getZoneById failed"

\* The scheduler's clock when the timer delays are left open.
NoClock == [interval |-> 0, now |-> 0, fireAt |-> 0]

\* The Watcher constructor.
Init ==
    /\ started = FALSE
    /\ timers = 0
    /\ fired = 0
    /\ uncaught = NoException
    /\ asyncGuard \in AsyncGuards
    /\ cyc = [c \in Cycles |-> IdleCycle]
    /\ hist = [c \in Cycles |-> NoHistory]
    /\ vms = EmptyMap
    /\ vmobj = [c \in Cycles |-> EmptyMap]
    /\ network = [owner |-> 0, usage |-> EmptyMap]
    /\ disk = EmptyMap
    /\ dsobj = [c \in Cycles |-> EmptyMap]
    /\ vmDatasetsToPath = EmptyMap
    /\ vmPathsToZone = EmptyMap
    /\ vmsToDataset = EmptyMap
    /\ emitted = <<>>
    /\ clock = NoClock

\* An uncaught exception, thrown by a callback of cycle c: the process ends
\* and its timers with it.  h is the history, with what the callback was given.
Crash(c, error, h) ==
    /\ uncaught' = [cycle |-> c, error |-> error]
    /\ timers' = 0
    /\ hist' = h
    /\ UNCHANGED <<clock, started, fired, asyncGuard, cyc, shared>>

\* A cycle with a callback still to come.
InProgress(c) ==
    \/ cyc[c].pc \in {"boot", "list", "zfs", "xform", "emit"}
    \/ cyc[c].pending # {}

\* scheduleConfigurationCheck that sets two timers.
scheduleTwice(t) == t + 2

\* scheduleConfigurationCheck: one setTimeout.
scheduleConfigurationCheck(t) == t + 1

\* Watcher.prototype.start -> startPeriodicUpdates: arms the first timer.
Start ==
    /\ ~Crashed
    /\ ~started
    /\ started' = TRUE
    /\ timers' = scheduleConfigurationCheck(timers)
    /\ UNCHANGED <<clock, fired, uncaught, asyncGuard, cyc, hist, shared>>

\* TimerFire that sets no new timer before the cycle's body: the callback
\* without its scheduleConfigurationCheck() call.
TimerFireNoRearm ==
    /\ ~Crashed
    /\ timers > 0
    /\ fired < MaxCycles
    /\ Cardinality({c \in Cycles : InProgress(c)}) < MaxOverlap
    /\ timers' = timers - 1
    /\ fired' = fired + 1
    /\ cyc' = [cyc EXCEPT ![fired + 1].pc = "boot"]
    /\ hist' = [hist EXCEPT ![fired + 1].alone = \A c \in Cycles : ~InProgress(c)]
    /\ UNCHANGED <<clock, started, uncaught, asyncGuard, shared>>

\* The timer's callback: scheduleConfigurationCheck() and then
\* gatherStateAllZones(), whose waterfall starts updateNetworkUsage, whose own
\* waterfall calls common.bootTime.
TimerFire ==
    /\ ~Crashed
    /\ timers > 0
    /\ fired < MaxCycles
    /\ Cardinality({c \in Cycles : InProgress(c)}) < MaxOverlap
    /\ timers' = scheduleConfigurationCheck(timers - 1)
    /\ fired' = fired + 1
    /\ cyc' = [cyc EXCEPT ![fired + 1].pc = "boot"]
    /\ hist' = [hist EXCEPT ![fired + 1].alone = \A c \in Cycles : ~InProgress(c)]
    /\ UNCHANGED <<clock, started, uncaught, asyncGuard, shared>>

\* Appends a completed stage to a cycle's history.
StageDone(h, c, stage) == [h EXCEPT ![c].stages = Append(@, stage)]

\* BootTimeError with the error dropped, as updateDisk's handler drops its
\* own: callback() without the error, so the waterfall goes on to the listing.
BootTimeErrorDropped(c) ==
    /\ ~Crashed
    /\ cyc[c].pc = "boot"
    /\ cyc' = [cyc EXCEPT ![c].pc = "list"]
    /\ hist' = [StageDone(hist, c, "net") EXCEPT ![c].bootErr = TRUE]
    /\ UNCHANGED <<clock, started, timers, fired, uncaught, asyncGuard, shared>>

\* common.bootTime fails: updateNetworkUsage's handler passes the error on, the
\* cycle's waterfall skips every later task and its handler logs the error.
BootTimeError(c) ==
    /\ ~Crashed
    /\ cyc[c].pc = "boot"
    /\ cyc' = [cyc EXCEPT ![c].pc = "done"]
    /\ hist' = [hist EXCEPT ![c].bootErr = TRUE, ![c].errors = @ + 1]
    /\ UNCHANGED <<clock, started, timers, fired, uncaught, asyncGuard, shared>>

\* common.bootTime answers: the kstat links are read and resolved to zones
\* (zutil.getZoneById throws for a zone that is gone), self.network is
\* replaced, and updateVirtualMachines calls common.vmListFromFile.
BootTimeOk(c) ==
    /\ ~Crashed
    /\ cyc[c].pc = "boot"
    /\ \E time \in BootTimes, stats \in StatReads :
       \E lost \in SUBSET {LinkZone(n) : n \in ZoneLinks(stats)} :
          IF lost # {}
          THEN Crash(c, ZoneByIdError, [hist EXCEPT ![c].byIdErr = TRUE])
          ELSE /\ network' = [owner |-> c, usage |-> Usage(time, stats)]
               /\ cyc' = [cyc EXCEPT ![c].pc = "list"]
               /\ hist' = [StageDone(hist, c, "net") EXCEPT ![c].stats = stats]
               /\ UNCHANGED <<clock, started, timers, fired, uncaught, asyncGuard, vms,
                              vmobj, disk, dsobj, vmDatasetsToPath, vmPathsToZone,
                              vmsToDataset, emitted>>

\* What zutil.getZoneState can do for a listed zone: return a status, throw
\* 'no such zone configured' ("gone"), or throw something else ("fail").
StateOutcomes == Statuses \cup {"gone", "fail"}

\* onVm for the items of the listing, in order, as async.each runs it: acc is
\* the registry, this cycle's vm objects, async.each's bookkeeping and whether
\* an item threw (the loop ends there).  For the global zone cb() is called and
\* nothing else.  For any other zone self.vms[z.name] is a new object; a status
\* is stored; on 'no such zone configured' cb() is called and the function goes
\* on; any other error is thrown again; and common.vmGet is called.
RECURSIVE onVmEach(_, _, _, _)
onVmEach(arr, st, now, acc) ==
    IF arr = <<>> \/ acc.thrown THEN acc
    ELSE LET z == Head(arr)
             step ==
                 IF z = "global"
                 THEN [acc EXCEPT !.completed = @ + 1, !.called = @ \cup {z}]
                 ELSE IF st[z] = "fail"
                 THEN [acc EXCEPT !.vms = Put(@, z, now),
                                  !.objs = Put(@, z, NewVm(z, now)),
                                  !.thrown = TRUE]
                 ELSE IF st[z] = "gone"
                 THEN [acc EXCEPT !.vms = Put(@, z, now),
                                  !.objs = Put(@, z, NewVm(z, now)),
                                  !.completed = @ + 1,
                                  !.called = @ \cup {z},
                                  !.pending = @ \cup {z}]
                 ELSE [acc EXCEPT !.vms = Put(@, z, now),
                                  !.objs = Put(@, z, [NewVm(z, now) EXCEPT !.status = st[z]]),
                                  !.pending = @ \cup {z}]
         IN  onVmEach(Tail(arr), st, now, step)

\* What async.each does with the undefined list a failed listing leaves: read
\* arr.length and throw (0.2.x), or take it for an empty list (1.x and later).
EachOfUndefined(guard) == IF guard = "each" THEN {"throw", "empty"} ELSE {"empty"}

\* common.vmListFromFile fails.  Its error is not looked at: async.each runs
\* over the list it was given, and its end calls callback() with no error, so
\* updateDisk calls zfs.get.
VmListError(c) ==
    /\ ~Crashed
    /\ cyc[c].pc = "list"
    /\ \E how \in EachOfUndefined(asyncGuard) :
          IF how = "throw"
          THEN Crash(c, ListUndefined, [hist EXCEPT ![c].listErr = TRUE])
          ELSE /\ cyc' = [cyc EXCEPT ![c].pc = "zfs", ![c].stageCalls = @ + 1]
               /\ hist' = [StageDone(hist, c, "vms") EXCEPT ![c].listErr = TRUE]
               /\ UNCHANGED <<clock, started, timers, fired, uncaught, asyncGuard, shared>>

\* common.vmListFromFile answers with the global zone and some other zones:
\* async.each runs onVm over them; when every item has called back at once
\* (no zone, or only zones that are gone), updateDisk calls zfs.get.
VmListOk(c) ==
    /\ ~Crashed
    /\ cyc[c].pc = "list"
    /\ \E listed \in SUBSET Zones :
       \E st \in [listed -> StateOutcomes] :
          LET arr == <<"global">> \o KeySeq([z \in listed |-> TRUE], ZoneOrder)
              acc == onVmEach(arr, st, c,
                              [vms |-> vms, objs |-> EmptyMap, completed |-> 0,
                               called |-> {}, pending |-> {}, thrown |-> FALSE])
              over == acc.completed = Len(arr)
          IN  IF acc.thrown
              THEN Crash(c, ZoneStateError,
                         [hist EXCEPT ![c].listed = listed,
                                      ![c].stateErr = {z \in listed : st[z] = "fail"}])
              ELSE /\ vms' = acc.vms
                   /\ vmobj' = [vmobj EXCEPT ![c] = acc.objs]
                   /\ cyc' = [cyc EXCEPT ![c].pc = IF over THEN "zfs" ELSE "each",
                                         ![c].arrLen = Len(arr),
                                         ![c].completed = acc.completed,
                                         ![c].called = acc.called,
                                         ![c].pending = acc.pending,
                                         ![c].stageCalls = IF over THEN @ + 1 ELSE @]
                   /\ hist' = [(IF over THEN StageDone(hist, c, "vms") ELSE hist)
                                  EXCEPT ![c].listed = listed,
                                         ![c].gone = {z \in listed : st[z] = "gone"},
                                         ![c].cfgCalled = acc.pending]
                   /\ UNCHANGED <<clock, started, timers, fired, uncaught, asyncGuard,
                                  network, disk, dsobj, vmDatasetsToPath,
                                  vmPathsToZone, vmsToDataset, emitted>>

\* common.vmGet fails for a zone: onVm calls updateVirtualMachines' callback
\* with the error (not cb).  A library that guards the waterfall's callbacks
\* throws when that callback was called before; otherwise the cycle's handler
\* logs the error, once.
VmGetError(c, z) ==
    /\ ~Crashed
    /\ z \in cyc[c].pending
    /\ IF asyncGuard = "all" /\ cyc[c].stageCalls > 0
       THEN Crash(c, AlreadyCalled,
                  [hist EXCEPT ![c].cfgErr = @ \cup {z}, ![c].cfgDone = @ \cup {z}])
       ELSE /\ cyc' = [cyc EXCEPT ![c].pending = @ \ {z}, ![c].stageCalls = @ + 1]
            /\ hist' = [hist EXCEPT ![c].cfgErr = @ \cup {z},
                                    ![c].cfgDone = @ \cup {z},
                                    ![c].errors = IF @ = 0 THEN 1 ELSE @]
            /\ UNCHANGED <<clock, started, timers, fired, uncaught, asyncGuard, shared>>

\* common.vmGet answers for a zone: the record becomes the config of the vm
\* object onVm created (its alias decoded), the cross-reference tables are
\* written and cb() is called.  A second cb() for the item (the first was the
\* one of the 'no such zone' branch) makes async.each throw.  When the count
\* reaches arr.length, updateVirtualMachines' callback is called (a library
\* that guards the waterfall's callbacks throws when it was called before) and
\* updateDisk calls zfs.get.
VmGetOk(c, z) ==
    /\ ~Crashed
    /\ z \in cyc[c].pending
    /\ LET dataset == StripLeadingSlash(ZonePathOf(z))
           again == z \in cyc[c].called
           count == cyc[c].completed + 1
           over == count = cyc[c].arrLen
       IN  IF \/ again
              \/ over /\ asyncGuard = "all" /\ cyc[c].stageCalls > 0
           THEN Crash(c, AlreadyCalled, [hist EXCEPT ![c].cfgDone = @ \cup {z}])
           ELSE /\ vmobj' = [vmobj EXCEPT ![c][z].config = DecodeAlias(VmRec(z))]
                /\ vmDatasetsToPath' = Put(vmDatasetsToPath, dataset, ZonePathOf(z))
                /\ vmPathsToZone' = Put(vmPathsToZone, ZonePathOf(z), z)
                /\ vmsToDataset' = Put(vmsToDataset, z, dataset)
                /\ cyc' = [cyc EXCEPT ![c].pending = @ \ {z},
                                      ![c].completed = count,
                                      ![c].called = @ \cup {z},
                                      ![c].pc = IF over THEN "zfs" ELSE @,
                                      ![c].stageCalls = IF over THEN @ + 1 ELSE @]
                /\ hist' = [(IF over THEN StageDone(hist, c, "vms") ELSE hist)
                               EXCEPT ![c].cfgDone = @ \cup {z}]
                /\ UNCHANGED <<clock, started, timers, fired, uncaught, asyncGuard, vms,
                               network, disk, dsobj, emitted>>

\* add(d) for the vm `uuid`: self.disk[uuid][d] is the dataset's object (the
\* one zfs.get returned, shared by every vm it is attached to), and its
\* numeric properties are coerced in place.
add(acc, c, uuid, d) ==
    [disk |-> [acc.disk EXCEPT ![uuid] = Put(@, d, c)],
     objs |-> [acc.objs EXCEPT ![d] = Coerce(@)]]

\* The for-in loop over the datasets for one vm: add(d) when d starts with the
\* zonepath, and add(d) again when it starts with the cores path.
RECURSIVE EachDataset(_, _, _, _)
EachDataset(ds, c, vm, acc) ==
    IF ds = <<>> THEN acc
    ELSE LET d  == Head(ds)
             a1 == IF startsWith(d, ZonepathKey(vm)) THEN add(acc, c, vm.uuid, d) ELSE acc
             a2 == IF startsWith(d, CoresKey(vm)) THEN add(a1, c, vm.uuid, d) ELSE a1
         IN  EachDataset(Tail(ds), c, vm, a2)

\* The async.each over Object.keys(self.vms) of updateDisk: the vm's map is
\* created when it is missing, then the datasets are matched.
RECURSIVE EachVmDisk(_, _, _, _, _)
EachVmDisk(uuids, ds, c, objOf, acc) ==
    IF uuids = <<>> THEN acc
    ELSE LET uuid == Head(uuids)
             a0 == IF uuid \in DOMAIN acc.disk THEN acc
                   ELSE [acc EXCEPT !.disk = Put(@, uuid, EmptyMap)]
         IN  EachVmDisk(Tail(uuids), ds, c, objOf,
                        EachDataset(ds, c, objOf[uuid], a0))

\* The vm object self.vms[z] refers to.
VmOf(z) == vmobj[vms[z]][z]

\* zfs.get fails: the inner waterfall's handler calls callback() whatever it was
\* given, so the error is dropped and transform is the next task.
ZfsGetError(c) ==
    /\ ~Crashed
    /\ cyc[c].pc = "zfs"
    /\ cyc' = [cyc EXCEPT ![c].pc = "xform"]
    /\ hist' = [StageDone(hist, c, "disk") EXCEPT ![c].zfsErr = TRUE]
    /\ UNCHANGED <<clock, started, timers, fired, uncaught, asyncGuard, shared>>

\* zfs.get answers: every vm of self.vms gets its datasets.  Reading
\* vm.config.zonepath of a vm whose config is undefined throws.
ZfsGetOk(c) ==
    /\ ~Crashed
    /\ cyc[c].pc = "zfs"
    /\ \E read \in ZfsReads :
          LET ds   == SelectSeq(DatasetOrder, LAMBDA d : d \in read.names)
              raw  == [d \in read.names |-> RawProps(d, read.used)]
              objOf == [z \in Keys(vms) |-> VmOf(z)]
              acc  == EachVmDisk(KeySeq(vms, ZoneOrder), ds, c, objOf,
                                 [disk |-> disk, objs |-> raw])
          IN  IF ds # <<>> /\ \E z \in Keys(vms) : ~VmOf(z).config.defined
              THEN Crash(c, ConfigUndefined, [hist EXCEPT ![c].datasets = read.names])
              ELSE /\ disk' = acc.disk
                   /\ dsobj' = [dsobj EXCEPT ![c] = acc.objs]
                   /\ cyc' = [cyc EXCEPT ![c].pc = "xform"]
                   /\ hist' = [StageDone(hist, c, "disk") EXCEPT ![c].datasets = read.names]
                   /\ UNCHANGED <<clock, started, timers, fired, uncaught, asyncGuard, vms,
                                  vmobj, network, vmDatasetsToPath, vmPathsToZone,
                                  vmsToDataset, emitted>>

\* transformVm: the snapshot of one vm object.  config is a deep copy;
\* network_usage and disk_usage are the objects self.network and self.disk
\* hold for the uuid (references, not copies), or undefined.
transformVm(vmObj) ==
    LET uuid == vmObj.config.name
    IN  [zonename |-> vmObj.config.name,
         zonepath |-> vmObj.config.zonepath,
         uuid |-> uuid,
         os_uuid |-> vmObj.os_uuid,
         status |-> vmObj.status,
         config |-> vmObj.config,
         network_usage |->
             [defined |-> uuid \in DOMAIN network.usage,
              owner |-> network.owner,
              links |-> IF uuid \in DOMAIN network.usage
                        THEN network.usage[uuid] ELSE EmptyMap],
         disk_usage |-> [defined |-> uuid \in DOMAIN disk, obj |-> uuid],
         timestamp |-> vmObj.timestamp,
         v |-> "1"]

\* transform: one snapshot per key of self.vms, stored under the snapshot's
\* uuid.  Reading config.name of a vm whose config is undefined throws.
Transform(c) ==
    /\ ~Crashed
    /\ cyc[c].pc = "xform"
    /\ IF \E z \in Keys(vms) : ~VmOf(z).config.defined
       THEN Crash(c, ConfigUndefined, hist)
       ELSE /\ cyc' = [cyc EXCEPT
                          ![c].pc = "emit",
                          ![c].vms = [u \in {VmOf(z).config.name : z \in Keys(vms)} |->
                                         transformVm(VmOf(CHOOSE z \in Keys(vms) :
                                                          VmOf(z).config.name = u))]]
            /\ hist' = StageDone(hist, c, "xform")
            /\ UNCHANGED <<clock, started, timers, fired, uncaught, asyncGuard, shared>>

\* The disk_usage map a snapshot refers to, as it reads now: the map object of
\* self.disk and the dataset objects in it.
DiskUsageNow(ref) ==
    IF ref.defined
    THEN [defined |-> TRUE,
          owners |-> disk[ref.obj],
          map |-> [d \in DOMAIN disk[ref.obj] |-> dsobj[disk[ref.obj][d]][d]]]
    ELSE [defined |-> FALSE, owners |-> EmptyMap, map |-> EmptyMap]

\* A snapshot as a consumer holding it reads it now.
SnapshotNow(vm) == [vm EXCEPT !.disk_usage = DiskUsageNow(@)]

\* Events that stops after the first snapshot: the for-in loop of the emit
\* task with a break in it.
EventsFirstOnly(c, snaps) ==
    LET keys == KeySeq(snaps, ZoneOrder)
    IN  [i \in 1 .. (IF Len(keys) > 0 THEN 1 ELSE 0) |->
            [cycle |-> c, vm |-> snaps[keys[i]], seen |-> SnapshotNow(snaps[keys[i]])]]

\* The events of one cycle: one per key of transform's result.  vm is the
\* snapshot object handed to the listeners, seen is what a listener reads in
\* it while the event is delivered.
Events(c, snaps) ==
    LET keys == KeySeq(snaps, ZoneOrder)
    IN  [i \in 1 .. Len(keys) |->
            [cycle |-> c, vm |-> snaps[keys[i]], seen |-> SnapshotNow(snaps[keys[i]])]]

\* The last task of the cycle's waterfall: emit 'vm-update' for every snapshot,
\* then the cycle's handler runs without an error.
Emit(c) ==
    /\ ~Crashed
    /\ cyc[c].pc = "emit"
    /\ emitted' = emitted \o Events(c, cyc[c].vms)
    /\ cyc' = [cyc EXCEPT ![c].pc = "done"]
    /\ hist' = StageDone(hist, c, "emit")
    /\ UNCHANGED <<clock, started, timers, fired, uncaught, asyncGuard, vms, vmobj,
                   network, disk, dsobj, vmDatasetsToPath, vmPathsToZone,
                   vmsToDataset>>

Next ==
    \/ Start
    \/ TimerFire
    \/ \E c \in Cycles : BootTimeError(c)
    \/ \E c \in Cycles : BootTimeOk(c)
    \/ \E c \in Cycles : VmListError(c)
    \/ \E c \in Cycles : VmListOk(c)
    \/ \E c \in Cycles, z \in Zones : VmGetError(c, z)
    \/ \E c \in Cycles, z \in Zones : VmGetOk(c, z)
    \/ \E c \in Cycles : ZfsGetError(c)
    \/ \E c \in Cycles : ZfsGetOk(c)
    \/ \E c \in Cycles : Transform(c)
    \/ \E c \in Cycles : Emit(c)

Spec == Init /\ [][Next]_vars

\* ------------------------------------------- the scheduler's arithmetic
\* Times are in milliseconds, as Date.now() gives them; the seconds of the
\* code are these divided by 1000, so its arithmetic is done here on exact
\* multiples of a millisecond.
MaxFirings == 3
\* config.intervalSeconds as configured (0: not configured).
ConfiguredIntervals == {0, 1, 2, 3, 7, 10}
\* The values of Date.now() at start().
StartTimes == {0, 1, 999, 1000, 1500, 4999, 5000, 5001, 9999, 59999, 60000, 61234}
\* How long after its due time a timer's callback runs.
Lateness == {0, 1, 250}

\* this.config.intervalSeconds = this.config.intervalSeconds || 60.
DefaultIntervalSeconds == 60
intervalSeconds(configured) ==
    IF configured = 0 THEN DefaultIntervalSeconds ELSE configured

\* var offset = 5.
offset == 5

\* dsecs * 1000, the delay given to setTimeout: secs = offset + now / 1000,
\* mod = secs % interval, dsecs = interval - mod + offset.
dsecs(now, interval) ==
    LET secs == offset * 1000 + now
        mod  == secs % (interval * 1000)
    IN  interval * 1000 - mod + offset * 1000

\* start(): the interval is the configured one and the first timer is set.
SchedStart ==
    /\ ~started
    /\ started' = TRUE
    /\ timers' = scheduleConfigurationCheck(timers)
    /\ clock' = [clock EXCEPT !.fireAt = clock.now + dsecs(clock.now, clock.interval)]
    /\ UNCHANGED <<fired, uncaught, asyncGuard, cyc, hist, shared>>

\* The timer's callback runs, at its due time or later, and sets the next
\* timer from the time it runs at.  (The cycle it starts is left to Spec.)
SchedFire ==
    /\ started
    /\ timers > 0
    /\ fired < MaxFirings
    /\ \E late \in Lateness :
          LET now == clock.fireAt + late
          IN  clock' = [clock EXCEPT !.now = now,
                                     !.fireAt = now + dsecs(now, clock.interval)]
    /\ timers' = scheduleConfigurationCheck(timers - 1)
    /\ fired' = fired + 1
    /\ UNCHANGED <<started, uncaught, asyncGuard, cyc, hist, shared>>

SchedInit ==
    /\ started = FALSE
    /\ timers = 0
    /\ fired = 0
    /\ uncaught = NoException
    /\ asyncGuard \in AsyncGuards
    /\ cyc = [c \in Cycles |-> IdleCycle]
    /\ hist = [c \in Cycles |-> NoHistory]
    /\ vms = EmptyMap
    /\ vmobj = [c \in Cycles |-> EmptyMap]
    /\ network = [owner |-> 0, usage |-> EmptyMap]
    /\ disk = EmptyMap
    /\ dsobj = [c \in Cycles |-> EmptyMap]
    /\ vmDatasetsToPath = EmptyMap
    /\ vmPathsToZone = EmptyMap
    /\ vmsToDataset = EmptyMap
    /\ emitted = <<>>
    /\ \E configured \in ConfiguredIntervals, now \in StartTimes :
          clock = [interval |-> intervalSeconds(configured), now |-> now, fireAt |-> 0]

SchedNext == SchedStart \/ SchedFire

SchedSpec == SchedInit /\ [][SchedNext]_vars

\* ============================================================== claims
\* The events a cycle has emitted, and the zones they are for.
EmittedIn(c) == {i \in DOMAIN emitted : emitted[i].cycle = c}
EmittedUuids(c) == {emitted[i].vm.uuid : i \in EmittedIn(c)}
\* The stages a cycle has completed.
StagesOf(c) == {hist[c].stages[i] : i \in DOMAIN hist[c].stages}
\* No two cycles were in progress at the same time.
Sequential == \A c \in Cycles : hist[c].alone
\* No accessor call of the cycle has failed, the state lookups aside.
OthersSucceed(c) ==
    /\ ~hist[c].bootErr /\ ~hist[c].byIdErr /\ ~hist[c].listErr /\ ~hist[c].zfsErr
    /\ hist[c].cfgErr = {}
    /\ hist[c].stateErr = {}

\* No accessor call of any cycle has failed.
NoFailures == \A c \in Cycles : OthersSucceed(c) /\ hist[c].gone = {}

\* C1: within one cycle no 'vm-update' is emitted before updateNetworkUsage,
\* updateVirtualMachines (with the per-zone work, the vmGet callback, of every
\* listed zone), updateDisk and transform have completed, in that order.
C1_EmitAfterAllStages ==
    \A c \in Cycles :
        EmittedIn(c) # {} =>
            /\ hist[c].stages = <<"net", "vms", "disk", "xform", "emit">>
            /\ hist[c].cfgCalled \subseteq hist[c].cfgDone

\* C1, the stage order alone: an emitting cycle has completed the four stages
\* in order.
C1_StagesInOrder ==
    \A c \in Cycles :
        EmittedIn(c) # {} =>
            hist[c].stages = <<"net", "vms", "disk", "xform", "emit">>

\* C2: when the state lookup of exactly one listed zone fails with 'no such
\* zone configured' and every other accessor call of the cycle succeeds, the
\* cycle throws nothing, its error handler is not entered, and once it is done
\* every other listed zone has a snapshot of that cycle.
C2_OthersStillReported ==
    \A c \in Cycles :
        (/\ Cardinality(hist[c].listed) = 2 /\ Cardinality(hist[c].gone) = 1
         /\ OthersSucceed(c) /\ Sequential)
        => /\ uncaught.cycle # c
           /\ hist[c].errors = 0
           /\ (cyc[c].pc = "done" =>
                  (hist[c].listed \ hist[c].gone) \subseteq EmittedUuids(c))

\* C3: a zone whose state lookup failed because it no longer exists is left
\* out of the cycle: it is not in self.vms, common.vmGet is not called for it,
\* and the cycle emits no snapshot for it.
C3_GoneZoneOmitted ==
    \A c \in Cycles : \A z \in hist[c].gone :
        /\ ~(z \in Keys(vms) /\ vms[z] = c)
        /\ z \notin hist[c].cfgCalled
        /\ z \notin EmittedUuids(c)

\* C4: when zfs.get fails, the cycle is aborted: the error reaches the cycle's
\* error handler, transform does not run and nothing is emitted.
C4_ZfsErrorAbortsCycle ==
    \A c \in Cycles :
        (/\ hist[c].zfsErr
         /\ ~hist[c].listErr /\ hist[c].gone = {} /\ hist[c].cfgErr = {}
         /\ Sequential) =>
            /\ hist[c].errors > 0
            /\ "xform" \notin StagesOf(c)
            /\ EmittedIn(c) = {}

\* C5: when common.vmListFromFile fails, the cycle is aborted: the error
\* reaches the cycle's error handler (it is not thrown), the disk and transform
\* stages do not run and nothing is emitted.
C5_ListErrorAbortsCycle ==
    \A c \in Cycles :
        hist[c].listErr =>
            /\ hist[c].errors > 0
            /\ uncaught.cycle # c
            /\ "disk" \notin StagesOf(c)
            /\ "xform" \notin StagesOf(c)
            /\ EmittedIn(c) = {}

\* C6: when common.bootTime fails, the error reaches the cycle's error handler,
\* none of the enumerate, disk, transform and emit stages runs, and the cycle
\* emits nothing.
C6_BootErrorFailsCycle ==
    \A c \in Cycles :
        hist[c].bootErr =>
            /\ hist[c].errors = 1
            /\ hist[c].stages = <<>>
            /\ hist[c].cfgCalled = {}
            /\ cyc[c].pc = "done"
            /\ EmittedIn(c) = {}
            /\ uncaught.cycle # c

\* C6 witness: a cycle whose boot-time read failed, while another cycle has
\* emitted its snapshots.
C6_Witness ==
    \E c \in Cycles : hist[c].bootErr /\ \E d \in Cycles : EmittedIn(d) # {}

\* A cycle in which every accessor call succeeded and the bulk read was made.
AllSucceed(c) ==
    /\ OthersSucceed(c)
    /\ hist[c].gone = {}
    /\ hist[c].cfgDone = hist[c].listed
    /\ "disk" \in StagesOf(c)

\* A snapshot built only from data its own cycle gathered.
BuiltInCycle(vm, c) ==
    /\ vm.timestamp = c
    /\ vm.network_usage.owner = c
    /\ vm.disk_usage.defined
    /\ \A d \in DOMAIN disk[vm.disk_usage.obj] :
          disk[vm.disk_usage.obj][d] = c /\ d \in hist[c].datasets

\* C7: after a failed cycle, the next cycle in which every accessor call
\* succeeds throws nothing and emits exactly one snapshot for each zone it
\* listed, each built only from data gathered in that cycle.
C7_NextCycleComplete ==
    \A c \in Cycles \ {1} :
        (Sequential /\ hist[c - 1].errors > 0 /\ AllSucceed(c))
        => /\ uncaught.cycle # c
           /\ (cyc[c].pc = "done" =>
                  /\ EmittedUuids(c) = hist[c].listed
                  /\ Cardinality(EmittedIn(c)) = Cardinality(hist[c].listed)
                  /\ \A i \in EmittedIn(c) : BuiltInCycle(emitted[i].vm, c))

\* C8: whatever error occurs in a cycle's body, once start() has been called
\* a timer for the next cycle is armed.
C8_TimerAlwaysArmed ==
    (started /\ \A c \in Cycles : ~hist[c].byIdErr /\ ~hist[c].listErr) => timers > 0

\* C9: every snapshot a cycle emits is for a zone that cycle's listing
\* returned.
C9_OnlyListedZonesReported ==
    \A i \in DOMAIN emitted :
        (Sequential /\ NoFailures)
        => emitted[i].vm.uuid \in hist[emitted[i].cycle].listed

\* C10: no snapshots of different cycles share a sub-object that is written
\* after construction, and nothing changes a snapshot once it is emitted.
C10_SnapshotsImmutable ==
    [][(Sequential /\ NoFailures)' =>
         \A i \in DOMAIN emitted : SnapshotNow(emitted[i].vm)' = SnapshotNow(emitted[i].vm)]_vars

\* The events the step appends to `emitted`, when the step is cycle c's emit.
EmitStep(c) == cyc[c].pc = "emit" /\ cyc'[c].pc = "done"
NewEvents == SubSeq(emitted', Len(emitted) + 1, Len(emitted'))
\* The step's events are one for each instance of the registry, no more.
OnePerInstance ==
    /\ {NewEvents[i].vm.uuid : i \in DOMAIN NewEvents} = Keys(vms)
    /\ Len(NewEvents) = Cardinality(Keys(vms))

\* C11 as stated: whenever a cycle emits, it emits exactly one 'vm-update' for
\* each instance that is in the registry (self.vms), none twice, none skipped.
\* Stated for runs in which no accessor call fails, with an async library whose
\* waterfall defers each task (setImmediate, before 2.0), so that the emit task
\* runs in a later turn of the event loop than transform.
C11_OneEventPerInstance ==
    [][\A c \in Cycles :
          (EmitStep(c) /\ NoFailures' /\ asyncGuard = "each") => OnePerInstance]_vars

\* C11, amended: when no cycle has started while another was in progress, a
\* cycle that emits, emits exactly one 'vm-update' for each instance that is in
\* the registry, none twice, none skipped.
C11_OneEventPerInstanceSequential ==
    [][\A c \in Cycles : (EmitStep(c) /\ Sequential') => OnePerInstance]_vars

\* C11 witness: cycles that did not overlap, one of which has emitted the
\* events of two instances.
C11_Witness ==
    /\ Sequential
    /\ \E c \in Cycles : cyc[c].pc = "done" /\ Cardinality(EmittedIn(c)) = 2

\* C12 as stated: for any interval and any current time the next-fire time is
\* congruent to the offset (5 seconds) modulo the interval and is later than
\* the current time.
C12_FireAlignedToOffset ==
    started =>
        /\ clock.fireAt % (clock.interval * 1000) = (offset * 1000) % (clock.interval * 1000)
        /\ clock.fireAt > clock.now

\* C12, what the arithmetic gives: the next-fire time is a multiple of the
\* interval (congruent to 0, not to the offset), more than the offset and at
\* most interval + offset seconds after the current time.
C12_FireAlignedToZero ==
    started =>
        /\ clock.fireAt % (clock.interval * 1000) = 0
        /\ clock.fireAt - clock.now > offset * 1000
        /\ clock.fireAt - clock.now <= (clock.interval + offset) * 1000

\* p is a prefix of s.
HasPrefix(s, p) == Len(p) <= Len(s) /\ \A i \in 1 .. Len(p) : SubSeq(s, i, i) = SubSeq(p, i, i)
\* The pool every root path of this host is in.
Pool == "p"
\* The datasets the claim attaches to the instance U: those under its root
\* path without the leading separator, and those under <pool>/cores/U.
Attaches(U, d) ==
    \/ HasPrefix(d, SubSeq(ZonePathOf(U), 2, Len(ZonePathOf(U))))
    \/ HasPrefix(d, Pool \o "/cores/" \o U)
\* The step is cycle c's zfs.get callback, answering without an error.
DiskStep(c) == cyc[c].pc = "zfs" /\ cyc'[c].pc = "xform" /\ ~hist'[c].zfsErr

\* C13: when updateDisk has run over a bulk read, a dataset of the read is in
\* the disk-usage map of instance U if and only if its name starts with U's
\* root path without the leading separator or with <pool>/cores/U.
C13_PrefixMatching ==
    [][\A c \in Cycles :
          DiskStep(c) =>
              \A U \in Keys(vms) : \A d \in hist'[c].datasets :
                  /\ U \in DOMAIN disk'
                  /\ (d \in DOMAIN disk'[U] <=> Attaches(U, d))
                  /\ (d \in DOMAIN disk'[U] => disk'[U][d] = c)]_vars

\* C13 witness: updateDisk has run over a read of every dataset with both
\* instances in the registry; "p/ab" is attached to both, "p/cores/b" to b
\* alone and "q" to neither.
C13_Witness ==
    \E c \in Cycles :
        /\ cyc[c].pc = "xform" /\ hist[c].datasets = Datasets
        /\ Keys(disk) = {"a", "b"}
        /\ DOMAIN disk["a"] = {"p/a", "p/ab"}
        /\ DOMAIN disk["b"] = {"p/ab", "p/cores/b"}

\* The not-applicable sentinel, and the properties the code must leave as text.
Sentinel == StrV("-")
TextKeys == {"name", "type", "mountpoint", "origin"}
\* What zfs.get returned for property k of dataset d ('used' and 'referenced'
\* aside, a read does not change it).
RawOf(d, k) == RawProps(d, "0")[k]

\* C14: in every disk-usage map, whatever the number of cycles and of
\* instances a dataset is attached to, a property that zfs.get returned as '-'
\* still is '-', for each of used, available, referenced, quota and volsize,
\* and type, mountpoint and origin (and name) are as zfs.get returned them.
C14_SentinelPreserved ==
    \A U \in DOMAIN disk : \A d \in DOMAIN disk[U] :
        LET props == dsobj[disk[U][d]][d]
        IN  /\ \A k \in numKeys : RawOf(d, k) = Sentinel => props[k] = Sentinel
            /\ \A k \in TextKeys : props[k] = RawOf(d, k)

\* C14 witness: after two cycles "p/ab" is attached to both instances (its
\* properties coerced twice in the cycle); available and referenced are '-',
\* used is a number.  "p/cores/b" has used '-', "p/a" a numeric quota.
C14_Witness ==
    /\ fired = 2 /\ cyc[2].pc = "xform"
    /\ Keys(disk) = {"a", "b"}
    /\ {"p/a", "p/ab"} \subseteq DOMAIN disk["a"]
    /\ {"p/ab", "p/cores/b"} \subseteq DOMAIN disk["b"]
    /\ disk["a"]["p/ab"] = 2 /\ disk["b"]["p/ab"] = 2
    /\ dsobj[2]["p/ab"].available = Sentinel
    /\ dsobj[2]["p/ab"].referenced = Sentinel
    /\ dsobj[2]["p/ab"].used = NumV(20)
    /\ dsobj[2]["p/cores/b"].used = Sentinel
    /\ dsobj[disk["a"]["p/a"]]["p/a"].quota = NumV(1000)
    /\ dsobj[disk["a"]["p/a"]]["p/a"].volsize = Sentinel

\* The root dataset of instance Y and its cores dataset.
RootDataset(Y) == SubSeq(ZonePathOf(Y), 2, Len(ZonePathOf(Y)))
CoresDataset(Y) == Pool \o "/cores/" \o Y
\* Dataset d belongs to instance Y: it is Y's root or cores dataset, or a
\* descendant of one of them.
BelongsTo(Y, d) ==
    \/ d = RootDataset(Y) \/ HasPrefix(d, RootDataset(Y) \o "/")
    \/ d = CoresDataset(Y) \/ HasPrefix(d, CoresDataset(Y) \o "/")
\* The link statistics of a read that are named z<id>_<link> with <id> the
\* zone id of X.
LinksOf(X, stats) ==
    {n \in stats : \E l \in LinkNames :
        n = "z" \o SubSeq(DigitChars, ZoneIdOf(X) + 1, ZoneIdOf(X) + 1) \o "_" \o l}
\* The name of the link inside the zone: what follows "z<id>_".
InnerName(n) == SubSeq(n, 4, Len(n))
\* A cycle that ran alone, without a failure, and has emitted.
CleanCycle(c) ==
    Sequential /\ NoFailures /\ cyc[c].pc = "done" /\ "emit" \in StagesOf(c)

\* C15, entries and network: a cycle's snapshot set has exactly one entry per
\* instance it listed, and the network_usage of X's snapshot holds exactly the
\* links named z<id>_<link> whose id is X's, each with that link's sample.
C15_EntriesAndNetwork ==
    \A c \in Cycles :
        CleanCycle(c) =>
            /\ hist[c].listed \subseteq EmittedUuids(c)
            /\ Cardinality(EmittedIn(c)) = Cardinality(EmittedUuids(c))
            /\ \A i \in EmittedIn(c) :
                  LET X  == emitted[i].seen.uuid
                      nu == emitted[i].seen.network_usage
                      ls == LinksOf(X, hist[c].stats)
                  IN  /\ nu.defined <=> ls # {}
                      /\ DOMAIN nu.links = {InnerName(n) : n \in ls}
                      /\ \A n \in ls :
                            nu.links[InnerName(n)] = Sample(CHOOSE t \in BootTimes : TRUE, LinkStat(n))

\* C15 as stated, disk part included: in addition, in a cycle that lists both
\* instances, the disk_usage of X's snapshot holds no dataset that belongs to
\* the other instance.
C15_NoCrossContamination ==
    \A c \in Cycles :
        (CleanCycle(c) /\ hist[c].listed = Zones) =>
            \A i \in EmittedIn(c) :
                LET X == emitted[i].seen.uuid
                IN  \A d \in DOMAIN emitted[i].seen.disk_usage.map :
                        \A Y \in Zones \ {X} : ~BelongsTo(Y, d)

\* A delivered snapshot without its timestamp and without the model's marks
\* of which cycle built an object.
Fields(seen) ==
    [seen EXCEPT !.timestamp = 0,
                 !.network_usage.owner = 0,
                 !.disk_usage.owners = EmptyMap]
\* The snapshot set a cycle delivered.
SnapshotSet(c) == {Fields(emitted[i].seen) : i \in EmittedIn(c)}
\* Two cycles whose accessors answered the same.
SameAnswers(c, d) ==
    /\ hist[c].listed = hist[d].listed
    /\ hist[c].stats = hist[d].stats
    /\ hist[c].datasets = hist[d].datasets

\* C16: two runs of the pipeline in sequence whose accessors answer the same
\* deliver snapshot sets that are equal in every field but timestamp.
C16_Idempotent ==
    \A c \in Cycles \ {1} :
        (CleanCycle(c - 1) /\ CleanCycle(c) /\ SameAnswers(c - 1, c))
        => SnapshotSet(c) = SnapshotSet(c - 1)

\* C16 witness: two clean cycles in sequence that both listed both instances
\* and read every dataset, each having delivered two snapshots.
C16_Witness ==
    /\ CleanCycle(1) /\ CleanCycle(2) /\ SameAnswers(1, 2)
    /\ hist[1].listed = Zones /\ hist[1].datasets = Datasets
    /\ Cardinality(EmittedIn(1)) = 2 /\ Cardinality(EmittedIn(2)) = 2

\* The delivered snapshot holds data gathered by cycle d: the vm object or the
\* network object cycle d built, or a dataset object of cycle d's read.
HoldsDataOf(seen, d) ==
    \/ seen.timestamp = d
    \/ seen.network_usage.owner = d
    \/ \E x \in DOMAIN seen.disk_usage.owners : seen.disk_usage.owners[x] = d

\* C17: the timer for the next cycle is set before the cycle's body runs, so
\* while a cycle is in progress a timer is pending and the next cycle is not
\* held back; and a snapshot emitted by a cycle holds data gathered by a later
\* cycle only when that later cycle started while another was in progress.
C17_CyclesNotSerialized ==
    /\ \A c \in Cycles : (InProgress(c) /\ ~Crashed) => timers > 0
    /\ \A i \in DOMAIN emitted : \A d \in Cycles :
          (d > emitted[i].cycle /\ HoldsDataOf(emitted[i].seen, d)) => ~hist[d].alone

\* C17 witness: two cycles were in progress at the same time, no accessor call
\* failed, both wrote self.vms, self.network and self.disk (each listed an
\* instance and read the datasets), and the first has emitted a snapshot
\* with the vm object, the network object and a dataset object of the second.
C17_Witness ==
    /\ ~hist[2].alone /\ NoFailures
    /\ hist[1].listed # {} /\ hist[2].listed # {}
    /\ "disk" \in StagesOf(1) /\ "disk" \in StagesOf(2)
    /\ \E i \in EmittedIn(1) :
          /\ emitted[i].seen.timestamp = 2
          /\ emitted[i].seen.network_usage.owner = 2
          /\ \E x \in DOMAIN emitted[i].seen.disk_usage.owners :
                emitted[i].seen.disk_usage.owners[x] = 2

\* C18: when zutil.getZoneById fails for a link of a zone that is gone, the
\* cycle throws nothing, its error handler is not entered and the network
\* stage completes (the other links recorded), so the cycle goes on.
C18_LostLinkDropped ==
    \A c \in Cycles :
        hist[c].byIdErr =>
            /\ uncaught.cycle # c
            /\ hist[c].errors = 0
            /\ "net" \in StagesOf(c)

\* C19: the disk_usage map of a snapshot a cycle emits holds only datasets
\* that cycle's zfs.get returned.  Stated for cycles that do not overlap, with
\* no accessor failure, and for the instances the cycle itself listed.
C19_DiskRebuiltEachCycle ==
    \A i \in DOMAIN emitted :
        (/\ Sequential /\ NoFailures
         /\ emitted[i].seen.uuid \in hist[emitted[i].cycle].listed)
        => DOMAIN emitted[i].seen.disk_usage.map \subseteq hist[emitted[i].cycle].datasets

\* The cycles that have been started.
StartedCycles == {c \in Cycles : cyc[c].pc # "idle"}

\* C20: with start() called once, at most one timer is pending at any time
\* (exactly one while the process runs: each firing sets one new timer), and
\* the number of cycles started equals the number of timer firings.
C20_OneTimerOneCyclePerFiring ==
    /\ timers \in {0, 1}
    /\ (started /\ ~Crashed) => timers = 1
    /\ ~started => (timers = 0 /\ fired = 0)
    /\ Cardinality(StartedCycles) = fired
    /\ StartedCycles = 1 .. fired

\* C20 witness: the timer has fired twice, both cycles it started are in
\* progress, and one timer is pending.
C20_Witness ==
    fired = 2 /\ timers = 1 /\ InProgress(1) /\ InProgress(2)

====
